---- MODULE Spec2Model ----
(***************************************************************************)
(* A model of the DHCPv4 client engine of client.go (three-timer variant, *)
(* lines 1-350): the Client's fields, the run-loop goroutine started by    *)
(* Start(), and the callers of Stop(), Renew() and Rebind().               *)
(*                                                                         *)
(* Threads.  The worker is the goroutine of run(); one caller thread runs  *)
(* Stop() (again and again), another runs Renew() and Rebind().  Every     *)
(* step is one access to shared memory or one blocking call, so that the   *)
(* unsynchronised accesses of the code (Rebind's write of client.Lease,    *)
(* Stop's read of client.conn) interleave with the worker as they do in    *)
(* the program.  A Go panic ends the process: fault records it and no      *)
(* action is enabled afterwards.                                           *)
(*                                                                         *)
(* Time is a clock of abstract lease-time units (now).  The worker's       *)
(* lease timers fire when the clock has reached their deadline, and the    *)
(* clock does not pass a deadline the blocked select is waiting for.  The  *)
(* one-second retry delay and the five-second response timeout are far     *)
(* shorter than a unit: they end at any moment.                            *)
(*                                                                         *)
(* Both callbacks (OnBound, OnExpire) are set and return.  The callers      *)
(* call Start first; Start itself is one step.  The worker's reads of       *)
(* client.state outside the mutex see the value last written.               *)
(*                                                                         *)
(* parseIPs, the decoder of address-list options, is a pure function; it   *)
(* is applied to option data under a specification of its own, ParseSpec.  *)
(***************************************************************************)
EXTENDS Integers, Sequences, FiniteSets, TLC

\* ------------------------------------------------------------- bounds
\* The clock runs from 1 to MaxTime.
MaxTime == 2
\* Transaction ids are drawn from 1..MaxXid (rand.Uint32 in the code).
MaxXid == 2

XIDs == 1..MaxXid
\* The address-list options handed to parseIPs have up to MaxLen bytes.
MaxLen == 9

\* ------------------------------------------------------------- constants
\* const ( requesting = iota; renewing; shutdown )
requesting == 0
renewing == 1
shutdown == 2

\* make(chan struct{}): the notify channel has no buffer.
NotifyCapBuffered == 0 + 1
NotifyCap == 0

\* A nil *Lease, and "no value" for the observer variables.
Nil == [MsgType |-> "nil"]
None == [MsgType |-> "none"]

\* The option values (seconds) of renewal time T1, rebinding time T2 and lease
\* time carried by a frame, as <<T1, T2, lease time>>; -1: the option is absent.
\* A server may send times that are not in the order T1 <= T2 <= lease time.
FullTiming == <<1, 2, 3>>
NoTiming == <<-1, -1, -1>>
DisorderedTiming == <<2, 1, 1>>
Timings ==
    { FullTiming, <<-1, 2, 3>>, <<1, -1, 3>>, <<1, 2, -1>>, <<0, 0, 0>>,
      DisorderedTiming }

\* The frames a raw socket can deliver: frames that are not DHCP, and DHCP
\* frames of either operation, any transaction id and message type.  An Ack
\* carries any of the timings; the times of the other messages are never
\* read by the client: an Offer carries the full timing, a Nak none.
Ops == {"BOOTREQUEST", "BOOTREPLY"}
Frames ==
    { [dhcp |-> FALSE] } \cup
    [dhcp : {TRUE}, Operation : Ops, Xid : XIDs, MsgType : {"Ack"},
     secs : Timings] \cup
    [dhcp : {TRUE}, Operation : Ops, Xid : XIDs,
     MsgType : {"Discover", "Offer"}, secs : {FullTiming}] \cup
    [dhcp : {TRUE}, Operation : Ops, Xid : XIDs, MsgType : {"Nak"},
     secs : {NoTiming}]

\* ------------------------------------------------------------- the codec
\* parsePacket: nil for a frame that is not DHCP.
parsePacket(f) == IF f.dhcp THEN f ELSE Nil

\* An absolute time from a seconds option read at time t; the zero time.Time
\* (0) when the option is absent.
TimeOf(t, s) == IF s < 0 THEN 0 ELSE t + s

\* newLease: the Lease of a DHCP packet received at time t.  The message type
\* is kept in the record to tell an offered lease from an acknowledged one.
newLease(p, t) ==
    [MsgType |-> p.MsgType,
     Renew |-> TimeOf(t, p.secs[1]), Rebind |-> TimeOf(t, p.secs[2]),
     Expire |-> TimeOf(t, p.secs[3])]

\* What waitForResponse returns for packet p received at time t: the message
\* type and the lease, with the packet's transaction id and operation.
Response(p, t) ==
    [MsgType |-> p.MsgType, Xid |-> p.Xid, Operation |-> p.Operation,
     lease |-> newLease(p, t)]

\* The test of waitForResponse on a parsed packet: same transaction id, a
\* BOOTREPLY, and a message type the caller waits for.
MatchesAnyXid(p, x, msgTypes) ==
    /\ p.Operation = "BOOTREPLY"
    /\ p.MsgType \in msgTypes
Matches(p, x, msgTypes) ==
    /\ p.Xid = x /\ p.Operation = "BOOTREPLY"
    /\ p.MsgType \in msgTypes

\* A reply of an awaited message type that belongs to another transaction.
StaleReply(f, x, msgTypes) ==
    /\ f.dhcp /\ f.Operation = "BOOTREPLY" /\ f.MsgType \in msgTypes
    /\ f.Xid # x

\* time.Time.IsZero
IsZero(t) == t = 0

\* The Ack test of request(): all three times are set.
AckIsValid(l) == ~IsZero(l.Expire) /\ ~IsZero(l.Renew) /\ ~IsZero(l.Rebind)

\* The byte values of the generated option data, and the option data: every
\* byte sequence of up to MaxLen such bytes, and the two inputs of
\* TestParseIPs.
Octets == {0, 255}
TestTwoAddresses == <<143, 209, 4, 1, 143, 209, 5, 1>>
TestShort == <<143, 209, 4>>
OptionData ==
    UNION { [1..n -> Octets] : n \in 0..MaxLen }
    \cup {TestTwoAddresses, TestShort}

\* parseIPs: the 4-byte addresses of an address-list option, in wire order;
\* it takes complete addresses while four bytes are left.
RECURSIVE parseIPsKeepsTail(_)
parseIPsKeepsTail(d) ==
    IF Len(d) = 0 THEN <<>>
    ELSE IF Len(d) < 4 THEN <<d>>
    ELSE <<SubSeq(d, 1, 4)>> \o parseIPsKeepsTail(SubSeq(d, 5, Len(d)))
RECURSIVE parseIPs(_)
parseIPs(d) ==
    IF Len(d) < 4 THEN <<>>
    ELSE <<SubSeq(d, 1, 4)>> \o parseIPs(SubSeq(d, 5, Len(d)))

\* ------------------------------------------------------------- state
VARIABLES
    notify,     \* client.notify: "nil", "open" or "closed"
    notifyBuf,  \* number of values queued in the notify channel
    wg,         \* client.wg: the WaitGroup's counter
    state,      \* client.state
    Lease,      \* client.Lease: Nil or a lease
    conn,       \* client.conn: "nil", "open", or "closed" (set, socket closed)
    xid,        \* client.xid
    wpc,        \* the worker's position
    path,       \* the branch runOnce took: "discover" or "renew"
    err,        \* runOnce's err is not nil
    res,        \* what waitForResponse returned last in this cycle, or Nil
    timers,     \* the deadlines of the timers of the select at line 147
    spc,        \* the position of the thread calling Stop
    cpc,        \* the position of the thread calling Renew and Rebind
    now,        \* the clock
    fault,      \* "none", or the panic that ended the process
    workers,    \* number of run() goroutines spawned so far
    stopped,    \* a call of Stop has returned
    bound,      \* argument of the OnBound call of this cycle, or None
    owed,       \* successful discover-request exchanges minus OnBound calls
    expired,    \* argument of the OnExpire call of this cycle, or None
    dropped,    \* the lease unbound() removed in this cycle, or None
    rebound,    \* Rebind has returned since the worker last chose a branch
    woke,       \* what ended the worker's last wait
    sig,        \* what the last send of Renew did
    skipped,    \* this wait skipped a reply of an awaited type, other xid
    data,       \* the bytes of an address-list option handed to parseIPs
    ips,        \* what parseIPs returned
    parsed      \* parseIPs has been applied to data

vars ==
    <<notify, notifyBuf, wg, state, Lease, conn, xid, wpc, path, err, res,
      timers, spc, cpc, now, fault, workers, stopped, bound, owed, expired,
      dropped, rebound, woke, sig, skipped, data, ips, parsed>>

\* A panic ends the process, and with it the client's memory and every
\* thread: what is left to see is which panic it was, where each thread was,
\* and what had happened before (workers, stopped).
Panic(msg) ==
    /\ fault' = msg
    /\ notify' = "nil" /\ notifyBuf' = 0 /\ wg' = 0
    /\ state' = requesting /\ Lease' = [MsgType |-> "nil"] /\ conn' = "nil"
    /\ xid' = 0 /\ path' = "discover" /\ err' = FALSE
    /\ res' = [MsgType |-> "nil"]
    /\ timers' = [Expire |-> 0, Rebind |-> 0, Renew |-> 0]
    /\ now' = 1
    /\ bound' = [MsgType |-> "none"] /\ owed' = 0
    /\ expired' = [MsgType |-> "none"] /\ dropped' = [MsgType |-> "none"]
    /\ rebound' = FALSE /\ woke' = "none" /\ sig' = "none" /\ skipped' = FALSE
    /\ UNCHANGED <<wpc, spc, cpc, workers, stopped>>

Running == fault = "none"

NoTimers == [Expire |-> 0, Rebind |-> 0, Renew |-> 0]

\* The Client after construction, before Start.
NewClient ==
    /\ notify = "nil" /\ notifyBuf = 0 /\ wg = 0
    /\ state = requesting /\ Lease = Nil /\ conn = "nil" /\ xid = 0
    /\ wpc = "idle" /\ path = "discover" /\ err = FALSE /\ res = Nil
    /\ timers = NoTimers
    /\ spc = "idle" /\ cpc = "idle" /\ now = 1 /\ fault = "none"
    /\ workers = 0 /\ stopped = FALSE /\ bound = None /\ owed = 0
    /\ expired = None /\ dropped = None /\ rebound = FALSE
    /\ woke = "none" /\ sig = "none" /\ skipped = FALSE

Init == NewClient /\ data = <<>> /\ ips = <<>> /\ parsed = FALSE

\* setState: the new state, unless a shutdown is running.
setStateUnguarded(newState) == newState
setState(newState) == IF state # shutdown THEN newState ELSE state

\* The worker is blocked in a select that receives from client.notify.
WorkerWaits == wpc \in {"errwait", "t_wait"}

\* ------------------------------------------------------------- Start
\* Start's guard, line 80: the client has been started before.
AlreadyStartedNever == FALSE
AlreadyStarted == notify # "nil"

Start ==
    /\ Running
    /\ UNCHANGED <<data, ips, parsed>>
    /\ IF AlreadyStarted
       THEN Panic("already started")
       ELSE /\ notify' = "open"
            /\ wg' = wg + 1
            /\ workers' = workers + 1
            /\ wpc' = "loop"
            /\ UNCHANGED <<notifyBuf, state, Lease, conn, xid, path, err, res,
                           timers, spc, cpc, now, fault, stopped, bound, owed,
                           expired, dropped, rebound, woke, sig, skipped>>

\* ------------------------------------------------------------- Stop
\* Stop, line 92: setState(shutdown).
StopCall ==
    /\ Running /\ notify # "nil" /\ spc = "idle"
    /\ UNCHANGED <<data, ips, parsed>>
    /\ state' = setState(shutdown)
    /\ spc' = "close"
    /\ UNCHANGED <<notify, notifyBuf, wg, Lease, conn, xid, wpc, path, err,
                   res, timers, cpc, now, fault, workers, stopped, bound, owed,
                   expired, dropped, rebound, woke, sig, skipped>>

\* Stop, line 93: close(client.notify); closing a closed channel panics.
StopClose ==
    /\ Running /\ spc = "close"
    /\ UNCHANGED <<data, ips, parsed>>
    /\ IF notify = "closed"
       THEN Panic("close of closed channel")
       ELSE /\ notify' = "closed"
            /\ spc' = "conn"
            /\ UNCHANGED <<notifyBuf, wg, state, Lease, conn, xid, wpc, path,
                           err, res, timers, cpc, now, fault, workers, stopped,
                           bound, owed, expired, dropped, rebound, woke, sig,
                           skipped>>

\* Stop, lines 95-97: close the socket the client holds at this moment.
StopConn ==
    /\ Running /\ spc = "conn"
    /\ UNCHANGED <<data, ips, parsed>>
    /\ conn' = IF conn = "open" THEN "closed" ELSE conn
    /\ spc' = "wait"
    /\ UNCHANGED <<notify, notifyBuf, wg, state, Lease, xid, wpc, path, err,
                   res, timers, cpc, now, fault, workers, stopped, bound, owed,
                   expired, dropped, rebound, woke, sig, skipped>>

\* wg.Wait() returns when the counter is zero.
WaitDoneAtOnce == TRUE
WaitDone == wg = 0

\* Stop, line 98: wg.Wait(), then Stop returns.
StopWait ==
    /\ Running /\ spc = "wait"
    /\ UNCHANGED <<data, ips, parsed>>
    /\ WaitDone
    /\ spc' = "idle"
    /\ stopped' = TRUE
    /\ UNCHANGED <<notify, notifyBuf, wg, state, Lease, conn, xid, wpc, path,
                   err, res, timers, cpc, now, fault, workers, bound, owed,
                   expired, dropped, rebound, woke, sig, skipped>>

\* ------------------------------------------------------------- Renew, Rebind
\* Renew, line 103: setState(renewing).
RenewCall ==
    /\ Running /\ notify # "nil" /\ cpc = "idle"
    /\ UNCHANGED <<data, ips, parsed>>
    /\ state' = setState(renewing)
    /\ cpc' = "rn_send"
    /\ UNCHANGED <<notify, notifyBuf, wg, Lease, conn, xid, wpc, path, err,
                   res, timers, spc, now, fault, workers, stopped, bound, owed,
                   expired, dropped, rebound, woke, sig, skipped>>

\* Rebind, line 112: setState(requesting).
RebindCall ==
    /\ Running /\ notify # "nil" /\ cpc = "idle"
    /\ UNCHANGED <<data, ips, parsed>>
    /\ state' = setState(requesting)
    /\ cpc' = "rb_clear"
    /\ UNCHANGED <<notify, notifyBuf, wg, Lease, conn, xid, wpc, path, err,
                   res, timers, spc, now, fault, workers, stopped, bound, owed,
                   expired, dropped, rebound, woke, sig, skipped>>

\* Rebind, line 113: client.Lease = nil, written without a lock.
RebindClear ==
    /\ Running /\ cpc = "rb_clear"
    /\ UNCHANGED <<data, ips, parsed>>
    /\ Lease' = Nil
    /\ cpc' = "rb_renew"
    /\ UNCHANGED <<notify, notifyBuf, wg, state, conn, xid, wpc, path, err,
                   res, timers, spc, now, fault, workers, stopped, bound, owed,
                   expired, dropped, rebound, woke, sig, skipped>>

\* Rebind, line 114, and Renew, line 103: setState(renewing).
RebindRenew ==
    /\ Running /\ cpc = "rb_renew"
    /\ UNCHANGED <<data, ips, parsed>>
    /\ state' = setState(renewing)
    /\ cpc' = "rb_send"
    /\ UNCHANGED <<notify, notifyBuf, wg, Lease, conn, xid, wpc, path, err,
                   res, timers, spc, now, fault, workers, stopped, bound, owed,
                   expired, dropped, rebound, woke, sig, skipped>>

\* What the select of Renew (lines 104-107) does on an open channel: hand the
\* value to the worker blocked in a receive, queue it if the buffer has room,
\* or take the default case.
SendOutcome ==
    IF WorkerWaits THEN "delivered"
    ELSE IF notifyBuf < NotifyCap THEN "queued"
    ELSE "dropped"

\* Renew, lines 104-107: the send that never blocks.  A send on a closed
\* channel panics.
RenewSend ==
    /\ Running /\ cpc \in {"rn_send", "rb_send"}
    /\ UNCHANGED <<data, ips, parsed>>
    /\ IF notify = "closed"
       THEN Panic("send on closed channel")
       ELSE /\ sig' = SendOutcome
            /\ cpc' = IF cpc = "rn_send" THEN "rn_ret" ELSE "rb_ret"
            /\ wpc' = IF SendOutcome = "delivered" THEN "loop" ELSE wpc
            /\ woke' = IF SendOutcome = "delivered" THEN "notify" ELSE woke
            /\ timers' = IF SendOutcome = "delivered" THEN NoTimers ELSE timers
            /\ notifyBuf' =
                   IF SendOutcome = "queued" THEN notifyBuf + 1 ELSE notifyBuf
            /\ UNCHANGED <<notify, wg, state, Lease, conn, xid, path, err, res,
                           spc, now, fault, workers, stopped, bound, owed,
                           expired, dropped, rebound, skipped>>

\* Renew, line 108, and Rebind, line 115: the call returns.
RenewReturn ==
    /\ Running /\ cpc \in {"rn_ret", "rb_ret"}
    /\ UNCHANGED <<data, ips, parsed>>
    /\ cpc' = "idle"
    /\ sig' = "none"
    /\ rebound' = (rebound \/ cpc = "rb_ret")
    /\ UNCHANGED <<notify, notifyBuf, wg, state, Lease, conn, xid, wpc, path,
                   err, res, timers, spc, now, fault, workers, stopped, bound,
                   owed, expired, dropped, woke, skipped>>

\* ------------------------------------------------------------- the worker
\* run, lines 118-121: the loop test, and wg.Done() when it fails.
Loop ==
    /\ Running /\ wpc = "loop"
    /\ UNCHANGED <<data, ips, parsed>>
    /\ woke' = "none"
    /\ IF state # shutdown
       THEN wpc' = "once" /\ wg' = wg
       ELSE wpc' = "done" /\ wg' = wg - 1
    /\ UNCHANGED <<notify, notifyBuf, state, Lease, conn, xid, path, err, res,
                   timers, spc, cpc, now, fault, workers, stopped, bound, owed,
                   expired, dropped, rebound, sig, skipped>>

\* runOnce, line 126: the branch.
ChoosePath ==
    IF Lease = Nil \/ state = requesting THEN "discover" ELSE "renew"

\* runOnce, line 126, and withConnection, lines 181-186: choose the branch,
\* open the socket (which may fail) and draw a transaction id.
Once ==
    /\ Running /\ wpc = "once"
    /\ UNCHANGED <<data, ips, parsed>>
    /\ path' = ChoosePath
    /\ res' = Nil /\ bound' = None /\ expired' = None /\ dropped' = None
    /\ rebound' = FALSE
    /\ \E opened \in BOOLEAN :
         IF opened
         THEN /\ conn' = "open"
              /\ \E x \in XIDs : xid' = x
              /\ err' = FALSE
              /\ wpc' = IF ChoosePath = "discover" THEN "d_send" ELSE "q_send"
         ELSE /\ err' = TRUE
              /\ wpc' = "errwait"
              /\ UNCHANGED <<conn, xid>>
    /\ UNCHANGED <<notify, notifyBuf, wg, state, Lease, timers, spc, cpc, now,
                   fault, workers, stopped, owed, woke, sig, skipped>>

\* discover, lines 205-213: send the Discover; the write fails on a socket
\* Stop has closed, and may fail otherwise.
DiscoverSend ==
    /\ Running /\ wpc = "d_send"
    /\ UNCHANGED <<data, ips, parsed>>
    /\ \E ok \in (IF conn = "open" THEN BOOLEAN ELSE {FALSE}) :
         /\ err' = ~ok
         /\ wpc' = IF ok THEN "d_recv" ELSE "close"
    /\ UNCHANGED <<notify, notifyBuf, wg, state, Lease, conn, xid, path, res,
                   timers, spc, cpc, now, fault, workers, stopped, bound, owed,
                   expired, dropped, rebound, woke, sig, skipped>>

\* waitForResponse, lines 329-332: ReadFrom fails, by the read deadline or
\* because the socket was closed.
DiscoverRecvFail ==
    /\ Running /\ wpc = "d_recv"
    /\ UNCHANGED <<data, ips, parsed>>
    /\ err' = TRUE
    /\ wpc' = "close"
    /\ skipped' = FALSE
    /\ UNCHANGED <<notify, notifyBuf, wg, state, Lease, conn, xid, path, res,
                   timers, spc, cpc, now, fault, workers, stopped, bound, owed,
                   expired, dropped, rebound, woke, sig>>

\* discover, lines 215-221, with waitForResponse, lines 334-348: a frame
\* arrives; it is skipped, or it is the Offer and becomes client.Lease.
DiscoverRecv ==
    /\ Running /\ wpc = "d_recv" /\ conn = "open"
    /\ UNCHANGED <<data, ips, parsed>>
    /\ \E f \in Frames :
         IF parsePacket(f) # Nil /\ Matches(parsePacket(f), xid, {"Offer"})
         THEN /\ res' = Response(parsePacket(f), now)
              /\ Lease' = newLease(parsePacket(f), now)
              /\ wpc' = "q_send"
              /\ skipped' = FALSE
         ELSE /\ skipped' = (skipped \/ StaleReply(f, xid, {"Offer"}))
              /\ UNCHANGED <<res, Lease, wpc>>
    /\ UNCHANGED <<notify, notifyBuf, wg, state, conn, xid, path, err, timers,
                   spc, cpc, now, fault, workers, stopped, bound, owed,
                   expired, dropped, rebound, woke, sig>>

\* request, lines 225-235: build the Request from client.Lease (a nil Lease
\* is a nil dereference) and send it.
RequestSend ==
    /\ Running /\ wpc = "q_send"
    /\ UNCHANGED <<data, ips, parsed>>
    /\ IF Lease = Nil
       THEN Panic("nil Lease")
       ELSE /\ \E ok \in (IF conn = "open" THEN BOOLEAN ELSE {FALSE}) :
                 /\ err' = ~ok
                 /\ wpc' = IF ok THEN "q_recv" ELSE "close"
            /\ UNCHANGED <<notify, notifyBuf, wg, state, Lease, conn, xid,
                           path, res, timers, spc, cpc, now, fault, workers,
                           stopped, bound, owed, expired, dropped, rebound,
                           woke, sig, skipped>>

\* waitForResponse, lines 329-332, called by request.
RequestRecvFail ==
    /\ Running /\ wpc = "q_recv"
    /\ UNCHANGED <<data, ips, parsed>>
    /\ err' = TRUE
    /\ wpc' = "close"
    /\ skipped' = FALSE
    /\ UNCHANGED <<notify, notifyBuf, wg, state, Lease, conn, xid, path, res,
                   timers, spc, cpc, now, fault, workers, stopped, bound, owed,
                   expired, dropped, rebound, woke, sig>>

\* unbound, lines 173-178: OnExpire(client.Lease), then client.Lease = nil.
unboundKeepsLease ==
    /\ expired' = Lease
    /\ dropped' = IF Lease # Nil THEN Lease ELSE dropped
    /\ Lease' = Lease
unbound ==
    /\ expired' = Lease
    /\ dropped' = IF Lease # Nil THEN Lease ELSE dropped
    /\ Lease' = Nil

\* request, lines 237-260, with waitForResponse, lines 334-348: a frame
\* arrives; it is skipped, or it is the Ack or Nak that ends the exchange.
RequestRecv ==
    /\ Running /\ wpc = "q_recv" /\ conn = "open"
    /\ UNCHANGED <<data, ips, parsed>>
    /\ \E f \in Frames :
         IF parsePacket(f) # Nil
            /\ Matches(parsePacket(f), xid, {"Ack", "Nak"})
         THEN /\ res' = Response(parsePacket(f), now)
              /\ wpc' = "close"
              /\ skipped' = FALSE
              /\ IF f.MsgType = "Ack"
                 THEN IF AckIsValid(newLease(parsePacket(f), now))
                      THEN /\ Lease' = newLease(parsePacket(f), now)
                           /\ owed' =
                                  IF path = "discover" THEN owed + 1 ELSE owed
                           /\ UNCHANGED <<err, expired, dropped>>
                      ELSE /\ err' = TRUE
                           /\ UNCHANGED <<Lease, owed, expired, dropped>>
                 ELSE /\ err' = TRUE
                      /\ unbound
                      /\ UNCHANGED owed
         ELSE /\ skipped' = (skipped \/ StaleReply(f, xid, {"Ack", "Nak"}))
              /\ UNCHANGED <<res, wpc, err, Lease, owed, expired, dropped>>
    /\ UNCHANGED <<notify, notifyBuf, wg, state, conn, xid, path, timers, spc,
                   cpc, now, fault, workers, stopped, bound, rebound, woke,
                   sig>>

\* runOnce, line 129: OnBound is called after the discover branch returned
\* no error.
CallsOnBound == path = "discover" /\ ~err

\* withConnection, lines 188-191: the deferred close of the socket; then
\* runOnce goes on at line 129, 137 or 147.
CloseConnOnSuccessOnly ==
    /\ Running /\ wpc = "close"
    /\ UNCHANGED <<data, ips, parsed>>
    /\ conn' = IF err THEN conn ELSE "nil"
    /\ wpc' = IF CallsOnBound THEN "bound"
              ELSE IF err THEN "errwait" ELSE "t_enter"
    /\ UNCHANGED <<notify, notifyBuf, wg, state, Lease, xid, path, err, res,
                   timers, spc, cpc, now, fault, workers, stopped, bound, owed,
                   expired, dropped, rebound, woke, sig, skipped>>
CloseConn ==
    /\ Running /\ wpc = "close"
    /\ UNCHANGED <<data, ips, parsed>>
    /\ conn' = "nil"
    /\ wpc' = IF CallsOnBound THEN "bound"
              ELSE IF err THEN "errwait" ELSE "t_enter"
    /\ UNCHANGED <<notify, notifyBuf, wg, state, Lease, xid, path, err, res,
                   timers, spc, cpc, now, fault, workers, stopped, bound, owed,
                   expired, dropped, rebound, woke, sig, skipped>>

\* runOnce, lines 129-131: cb(client.Lease).
Bound ==
    /\ Running /\ wpc = "bound"
    /\ UNCHANGED <<data, ips, parsed>>
    /\ bound' = Lease
    /\ owed' = owed - 1
    /\ wpc' = "t_enter"
    /\ UNCHANGED <<notify, notifyBuf, wg, state, Lease, conn, xid, path, err,
                   res, timers, spc, cpc, now, fault, workers, stopped,
                   expired, dropped, rebound, woke, sig, skipped>>

\* What can end a receive from client.notify without a sender at hand: the
\* channel is closed, or a value is queued in it.
NotifyReady ==
    (IF notify = "closed" THEN {"closed"} ELSE {}) \cup
    (IF notifyBuf > 0 THEN {"notify"} ELSE {})

\* runOnce, lines 140-144: the retry delay, ended by its timer or by notify.
\* (A value handed over by Renew ends it in RenewSend.)
ErrWaitGivesUp ==
    /\ Running /\ wpc = "errwait"
    /\ UNCHANGED <<data, ips, parsed>>
    /\ \E by \in NotifyReady \cup {"timer"} :
         /\ woke' = by
         /\ notifyBuf' = IF by = "notify" THEN notifyBuf - 1 ELSE notifyBuf
    /\ wpc' = "done"
    /\ wg' = wg - 1
    /\ UNCHANGED <<notify, state, Lease, conn, xid, path, err, res, timers,
                   spc, cpc, now, fault, workers, stopped, bound, owed,
                   expired, dropped, rebound, sig, skipped>>
ErrWait ==
    /\ Running /\ wpc = "errwait"
    /\ UNCHANGED <<data, ips, parsed>>
    /\ \E by \in NotifyReady \cup {"timer"} :
         /\ woke' = by
         /\ notifyBuf' = IF by = "notify" THEN notifyBuf - 1 ELSE notifyBuf
    /\ wpc' = "loop"
    /\ UNCHANGED <<notify, wg, state, Lease, conn, xid, path, err, res, timers,
                   spc, cpc, now, fault, workers, stopped, bound, owed,
                   expired, dropped, rebound, sig, skipped>>

\* runOnce, lines 147-157: entering the select evaluates the three
\* time.Until(client.Lease...) (a nil Lease is a nil dereference) and starts
\* the timers.
TimerEnter ==
    /\ Running /\ wpc = "t_enter"
    /\ UNCHANGED <<data, ips, parsed>>
    /\ IF Lease = Nil
       THEN Panic("nil Lease")
       ELSE /\ timers' = [Expire |-> Lease.Expire, Rebind |-> Lease.Rebind,
                          Renew |-> Lease.Renew]
            /\ wpc' = "t_wait"
            /\ UNCHANGED <<notify, notifyBuf, wg, state, Lease, conn, xid,
                           path, err, res, spc, cpc, now, fault, workers,
                           stopped, bound, owed, expired, dropped, rebound,
                           woke, sig, skipped>>

\* The timers of the select that have fired.
DueOnTheDotOnly == {t \in {"Expire", "Rebind", "Renew"} : timers[t] = now}
Due == {t \in {"Expire", "Rebind", "Renew"} : timers[t] <= now}

\* runOnce, lines 148-149: the select is ended by notify.
TimerNotify ==
    /\ Running /\ wpc = "t_wait"
    /\ UNCHANGED <<data, ips, parsed>>
    /\ \E by \in NotifyReady :
         /\ woke' = by
         /\ notifyBuf' = IF by = "notify" THEN notifyBuf - 1 ELSE notifyBuf
    /\ wpc' = "loop"
    /\ timers' = NoTimers
    /\ UNCHANGED <<notify, wg, state, Lease, conn, xid, path, err, res, spc,
                   cpc, now, fault, workers, stopped, bound, owed, expired,
                   dropped, rebound, sig, skipped>>

\* runOnce, lines 150, 154-159: the select is ended by a timer; the rebind
\* and renew cases set the state, the expire case goes on to unbound().
TimerFireRebindRenews ==
    /\ Running /\ wpc = "t_wait"
    /\ UNCHANGED <<data, ips, parsed>>
    /\ \E t \in Due :
         /\ woke' = t
         /\ wpc' = IF t = "Expire" THEN "t_exp" ELSE "loop"
         /\ state' = IF t = "Expire" THEN state ELSE setState(renewing)
    /\ timers' = NoTimers
    /\ UNCHANGED <<notify, notifyBuf, wg, Lease, conn, xid, path, err, res,
                   spc, cpc, now, fault, workers, stopped, bound, owed,
                   expired, dropped, rebound, sig, skipped>>
TimerFire ==
    /\ Running /\ wpc = "t_wait"
    /\ UNCHANGED <<data, ips, parsed>>
    /\ \E t \in Due :
         /\ woke' = t
         /\ wpc' = IF t = "Expire" THEN "t_exp" ELSE "loop"
         /\ state' = IF t = "Rebind" THEN setState(requesting)
                     ELSE IF t = "Renew" THEN setState(renewing)
                     ELSE state
    /\ timers' = NoTimers
    /\ UNCHANGED <<notify, notifyBuf, wg, Lease, conn, xid, path, err, res,
                   spc, cpc, now, fault, workers, stopped, bound, owed,
                   expired, dropped, rebound, sig, skipped>>

\* runOnce, lines 151-153: unbound(), then setState(requesting).
TimerExpire ==
    /\ Running /\ wpc = "t_exp"
    /\ UNCHANGED <<data, ips, parsed>>
    /\ unbound
    /\ state' = setState(requesting)
    /\ wpc' = "loop"
    /\ UNCHANGED <<notify, notifyBuf, wg, conn, xid, path, err, res, timers,
                   spc, cpc, now, fault, workers, stopped, bound, owed,
                   rebound, woke, sig, skipped>>

\* ------------------------------------------------------------- the clock
\* Time passes, but not beyond the moment a timer of the blocked select fires.
Tick ==
    /\ Running /\ now < MaxTime
    /\ UNCHANGED <<data, ips, parsed>>
    /\ ~(wpc = "t_wait" /\ Due # {})
    /\ now' = now + 1
    /\ UNCHANGED <<notify, notifyBuf, wg, state, Lease, conn, xid, wpc, path,
                   err, res, timers, spc, cpc, fault, workers, stopped, bound,
                   owed, expired, dropped, rebound, woke, sig, skipped>>

\* ------------------------------------------------------------- specification
Worker ==
    \/ Loop \/ Once \/ DiscoverSend \/ DiscoverRecvFail \/ DiscoverRecv
    \/ RequestSend \/ RequestRecvFail \/ RequestRecv \/ CloseConn \/ Bound
    \/ ErrWait \/ TimerEnter \/ TimerNotify \/ TimerFire \/ TimerExpire

Next ==
    \/ Start
    \/ StopCall \/ StopClose \/ StopConn \/ StopWait
    \/ RenewCall \/ RebindCall \/ RebindClear \/ RebindRenew \/ RenewSend
    \/ RenewReturn
    \/ Worker
    \/ Tick

Spec == Init /\ [][Next]_vars

\* The scheduler runs every goroutine that can take a step; a receive ends (by
\* its deadline at the latest), the retry timer fires, callbacks return.  When
\* Start, Stop, Renew and Rebind are called is up to the callers, but a call
\* that has begun goes on.
Fairness ==
    /\ WF_vars(Worker)
    /\ WF_vars(DiscoverRecvFail) /\ WF_vars(RequestRecvFail)
    /\ WF_vars(StopClose \/ StopConn \/ StopWait)
    /\ WF_vars(RebindClear \/ RebindRenew \/ RenewSend \/ RenewReturn)

FairSpec == Spec /\ Fairness

\* ------------------------------------------------------------- parseIPs
\* The decoding of an address-list option, on its own: any option data, to
\* which parseIPs is applied.
ParseInit == NewClient /\ data \in OptionData /\ ips = <<>> /\ parsed = FALSE

ParseStep ==
    /\ ~parsed
    /\ ips' = parseIPs(data)
    /\ parsed' = TRUE
    /\ UNCHANGED <<notify, notifyBuf, wg, state, Lease, conn, xid, wpc, path,
                   err, res, timers, spc, cpc, now, fault, workers, stopped,
                   bound, owed, expired, dropped, rebound, woke, sig, skipped,
                   data>>

ParseSpec == ParseInit /\ [][ParseStep]_vars

\* The worker is at position p of a process that has not panicked.
At(p) == Running /\ wpc = p

\* ------------------------------------------------------------- claims

\* C1: at most one run-loop worker ever exists; the first Start() spawns
\* exactly one, and a later Start() panics without spawning another.
C1_OneWorker ==
    /\ workers <= 1
    /\ wg <= 1
    /\ (wpc # "idle" => workers = 1)
    /\ (fault = "already started" => workers = 1)

C1_Witness == fault = "already started" /\ workers = 1 /\ wpc = "q_recv"

\* C2: in every state after Stop() has returned the worker has exited: it
\* holds no socket and is at no position where it sends, receives or calls
\* OnBound or OnExpire.
C2_StopWaitsForWorker == stopped => (wpc = "done" /\ conn # "open")

C2_Witness == stopped /\ Running /\ wpc = "done" /\ Lease # Nil

\* C3: once Stop() is called it eventually returns (unless the caller starts
\* the client a second time, which is meant to be fatal).
C3_StopEventuallyReturns ==
    (spc # "idle") ~> (spc = "idle" \/ fault = "already started")

\* C4: calling Stop() again after a Stop() has returned raises no fault.
C4_StopIdempotent == stopped => fault # "close of closed channel"

\* C5: Renew() never blocks and never queues a wake-up: no value is ever
\* queued in notify, a send that finds the worker busy is dropped and changes
\* nothing of the worker, and the worker is woken by notify only in the very
\* step of a send that finds it waiting.
C5_RenewNeverQueues ==
    /\ [](notifyBuf = 0)
    /\ []((Running /\ cpc \in {"rn_send", "rb_send"}) => ENABLED RenewSend)
    /\ [][(cpc \in {"rn_send", "rb_send"} /\ cpc' \notin {"rn_send", "rb_send"}
           /\ Running' /\ ~WorkerWaits)
          => (sig' = "dropped" /\ wpc' = wpc /\ woke' = woke)]_vars
    /\ [][(woke' = "notify" /\ woke # "notify")
          => (WorkerWaits /\ cpc \in {"rn_send", "rb_send"}
              /\ sig' = "delivered")]_vars

C5_Witness == Running /\ sig = "dropped" /\ cpc = "rn_ret" /\ wpc = "q_recv"

\* C6: after Rebind() has returned on a client that is not stopped, the next
\* branch the worker takes is the discovery.
C6_RebindForcesDiscovery ==
    [][(rebound /\ state # shutdown /\ wpc = "once" /\ wpc' # "once")
       => path' = "discover"]_vars

\* C7: after the discover-then-request exchange client.Lease is set only to
\* an Ack with all three times set; after a Nak or an Ack with a zero time
\* it is unset.
C7_FailedRequestLeavesNoLease ==
    /\ (At("close") /\ path = "discover" /\ err
        /\ res.MsgType \in {"Ack", "Nak"}) => Lease = Nil
    /\ (At("close") /\ path = "discover" /\ ~err /\ Lease # Nil)
        => (Lease.MsgType = "Ack" /\ AckIsValid(Lease))

\* C8: what waitForResponse returns is a BOOTREPLY of the current transaction
\* id and of an awaited message type, and client.Lease is only ever set from
\* such a response.
C8_ResponseMatches ==
    /\ [](res # Nil =>
            /\ res.Xid = xid
            /\ res.Operation = "BOOTREPLY"
            /\ res.MsgType \in {"Offer", "Ack", "Nak"}
            /\ (wpc \in {"q_send", "q_recv"} => res.MsgType = "Offer"))
    /\ [][(Lease' # Lease /\ Lease' # Nil)
          => (res' # Nil /\ Lease' = res'.lease /\ res'.Xid = xid
              /\ res'.Operation = "BOOTREPLY")]_vars

C8_Witness == At("q_recv") /\ skipped /\ res # Nil /\ res.Xid = xid

\* C9: OnBound is invoked exactly once for each successful
\* discover-then-request exchange, with the newly acknowledged lease, and not
\* after a renewal or a failed exchange.
C9_OnBoundOncePerAcquisition ==
    /\ owed \in {0, 1}
    /\ (At("t_enter") /\ path = "discover")
        => (owed = 0 /\ res # Nil /\ bound = res.lease)
    /\ (Running /\ wpc \in {"t_enter", "t_wait", "errwait", "loop"}
        /\ (path = "renew" \/ err)) => (owed = 0 /\ bound = None)

\* C10: when unbound() drops a lease (after a Nak, or when the expire timer
\* fired), OnExpire is invoked with that lease, and not again in the cycle;
\* the client then holds no lease, and the next branch the worker takes is
\* the discovery.
C10_DropCallsOnExpire ==
    /\ [](dropped # None => (expired = dropped /\ Lease = Nil))
    /\ [][(dropped' # dropped /\ dropped' # None)
          => (Lease # Nil /\ dropped' = Lease /\ expired' = Lease)]_vars
    /\ [][expired # None => expired' \in {expired, None}]_vars
    /\ [][(dropped # None /\ wpc = "once" /\ wpc' # "once")
          => path' = "discover"]_vars

C10_Witness ==
    At("close") /\ dropped # None /\ dropped.MsgType = "Ack"
    /\ res.MsgType = "Nak"

\* C11: every transaction closes its socket before control returns to the
\* run loop, on success and on every fault: outside a transaction (in the
\* retry delay, in the lease-timer wait, after the exit) client.conn is unset,
\* and a socket is opened only when the client holds none.
C11_SocketClosedOutsideTransaction ==
    /\ []((Running /\ wpc \in {"loop", "once", "bound", "errwait", "t_enter",
                               "t_wait", "t_exp", "done"}) => conn = "nil")
    /\ [][(conn' = "open" /\ conn # "open")
          => (conn = "nil" /\ wpc = "once")]_vars

C11_Witness ==
    At("errwait") /\ err /\ res # Nil /\ res.MsgType = "Nak" /\ conn = "nil"

\* C12: no I/O fault and no protocol fault ends the worker: it exits, and
\* signals completion, only when Stop() has set the shutdown state; the retry
\* delay after a fault leads back to the loop test, and the worker does not
\* panic in a cycle that met a fault.
C12_FaultsNeverEndWorker ==
    /\ [](wpc = "done" => (spc # "idle" \/ stopped))
    /\ [][(wpc' = "done" /\ wpc # "done")
          => (state = shutdown /\ wpc = "loop" /\ wg' = wg - 1)]_vars
    /\ [][(Running /\ err /\ wpc \in {"close", "errwait"} /\ wpc' # wpc)
          => wpc' \in {"errwait", "loop"}]_vars
    /\ [][(fault' = "nil Lease" /\ Running) => ~err]_vars

C12_Witness ==
    At("once") /\ err /\ res # Nil /\ res.MsgType = "Nak" /\ state # shutdown
    /\ spc = "idle" /\ ~stopped

\* C13: if the client is started, Stop() is never called (and Start() not a
\* second time), and from some point on no transaction meets a fault (socket
\* error, timeout, Nak, malformed Ack) while the Offer and the valid Ack the
\* worker waits for do arrive, then OnBound is eventually invoked with the
\* acknowledged lease the client holds.
C13_AcquisitionEventuallySucceeds ==
    ( /\ <>(wpc # "idle")
      /\ [](state # shutdown /\ fault # "already started")
      /\ <>[][~(err' /\ wpc' \in {"close", "errwait"}
                /\ wpc \notin {"close", "errwait"})]_vars
      /\ WF_vars(DiscoverRecv /\ wpc' = "q_send")
      /\ WF_vars(RequestRecv /\ wpc' = "close" /\ ~err') )
    => <>(Running /\ bound.MsgType = "Ack" /\ Lease = bound)

\* C14: when the renewal Request is answered by an Ack with a zero renew,
\* rebind or expire time, the fault is reported and the held lease is
\* dropped: in the retry delay that follows the client does not hold the
\* acknowledged lease any more, and the next branch is the discovery.
C14_MalformedRenewalAckDropsLease ==
    (At("errwait") /\ path = "renew" /\ res # Nil /\ res.MsgType = "Ack")
    => (err /\ Lease.MsgType # "Ack" /\ ChoosePath = "discover")

\* C15: parseIPs applied to n bytes returns exactly floor(n/4) addresses, the
\* i-th (counted from 0) being bytes 4i..4i+3 in wire order; trailing bytes
\* short of a complete address are dropped (3 bytes: no address, 6: one,
\* 8: two).
C15_ParseIPsCompleteAddresses ==
    parsed =>
        /\ Len(ips) = Len(data) \div 4
        /\ \A i \in 0..(Len(ips) - 1) :
              ips[i + 1] = <<data[4 * i + 1], data[4 * i + 2],
                             data[4 * i + 3], data[4 * i + 4]>>
        /\ (data = TestShort => ips = <<>>)
        /\ (data = TestTwoAddresses
            => ips = <<<<143, 209, 4, 1>>, <<143, 209, 5, 1>>>>)

C15_Witness ==
    parsed /\ Len(data) = 6 /\ Len(ips) = 1 /\ ips[1] = <<255, 0, 0, 255>>

\* No Stop() has been called, no Renew() or Rebind() is running, and no
\* Rebind() has returned since the worker chose its branch.
C16_NoSignal == Running /\ cpc = "idle" /\ ~rebound /\ state # shutdown

\* C16: with no external signal, the timer that ends the timer wait is one
\* whose deadline has come, and it decides the transition.  Renew: the lease
\* is kept and the next branch is the renewal.  Rebind: the lease is kept,
\* OnExpire is not invoked, and the next branch is the discovery.  Expire:
\* OnExpire is invoked with the lease, the lease is dropped and the next
\* branch is the discovery.
C16_FirstDeadlineDecides ==
    /\ [][(C16_NoSignal /\ wpc = "t_wait" /\ wpc' # "t_wait")
          => /\ woke' \in {"Renew", "Rebind", "Expire"}
             /\ timers[woke'] <= now
             /\ Lease # Nil /\ Lease' = Lease /\ expired' = expired
             /\ (woke' = "Renew") => (wpc' = "loop" /\ ChoosePath' = "renew")
             /\ (woke' = "Rebind")
                 => (wpc' = "loop" /\ ChoosePath' = "discover")
             /\ (woke' = "Expire") => wpc' = "t_exp"]_vars
    /\ [][(C16_NoSignal /\ wpc = "t_exp" /\ wpc' # "t_exp")
          => /\ Lease # Nil /\ expired' = Lease /\ Lease' = Nil
             /\ wpc' = "loop" /\ ChoosePath' = "discover"]_vars

C16_Witness ==
    /\ At("loop") /\ woke = "Expire" /\ Lease = Nil /\ state = requesting
    /\ expired.MsgType = "Ack"
    /\ expired.Renew <= expired.Rebind /\ expired.Rebind <= expired.Expire
    /\ cpc = "idle" /\ ~rebound

\* C17: whatever the order of the lease's deadlines, and also when a deadline
\* has passed before the timer wait starts, the worker does not fault in
\* starting, waiting or expiring; once a deadline has come the wait can end
\* at once and time does not pass it by; and the worker then leaves the wait
\* and reaches its next transaction (or its exit).
C17_DisorderedDeadlinesStillFire ==
    /\ [][(Running /\ wpc \in {"t_enter", "t_wait", "t_exp"} /\ Lease # Nil)
          => fault' # "nil Lease"]_vars
    /\ []((At("t_wait") /\ \E t \in DOMAIN timers : timers[t] <= now)
          => (ENABLED TimerFire /\ ~ENABLED Tick))
    /\ ((At("t_wait") /\ \E t \in DOMAIN timers : timers[t] <= now)
        ~> (wpc \in {"once", "done"} \/ fault # "none"))

C17_Witness ==
    /\ At("once") /\ state = requesting /\ cpc = "idle" /\ ~rebound
    /\ Lease # Nil /\ Lease.MsgType = "Ack" /\ Lease.Rebind < Lease.Renew
    /\ Lease.Rebind = now /\ ~err /\ res # Nil /\ res.lease = Lease

\* C18: the shutdown state is entered only by Stop(), and while the process
\* lives no step (of Renew(), of Rebind(), or a renew, rebind or expire
\* timer) changes it back to requesting or renewing.
C18_ShutdownAbsorbing ==
    /\ [][(state' = shutdown /\ state # shutdown)
          => (spc = "idle" /\ spc' = "close")]_vars
    /\ [][(state = shutdown /\ Running') => state' = shutdown]_vars

C18_Witness ==
    /\ Running /\ state = shutdown /\ cpc = "rb_send"
    /\ wpc = "loop" /\ woke = "Rebind"

\* C19: the worker never uses a missing lease: it never builds a Request
\* from, or computes the timer waits from, an unset client.Lease (a nil
\* dereference), and never invokes OnBound or OnExpire with one.
C19_NeverUsesMissingLease ==
    /\ fault # "nil Lease"
    /\ bound # Nil
    /\ expired # Nil

\* C20: a held lease does not outlive its expire deadline: when a renewal
\* attempt has failed without a response (socket error or timeout) and the
\* lease's expire time has passed, the worker does not choose the renewal
\* branch again for it.
C20_ExpiredLeaseNotRenewed ==
    [][(Running /\ wpc = "once" /\ wpc' # "once" /\ path = "renew" /\ err
        /\ res = Nil /\ Lease # Nil /\ Lease.Expire < now)
       => path' = "discover"]_vars

\* C21: Renew() and Rebind() called while Stop() runs or after it raise no
\* fault: they do not send on the notify channel Stop() has closed.
C21_RenewAfterStopHarmless == fault # "send on closed channel"

\* C22: the client comes to hold an acknowledged lease only in the discovery
\* branch, after which OnBound is invoked: an Offer that discover() stored
\* is not turned into an acknowledged lease by the renewal branch, which
\* does not call OnBound.
C22_OfferNotConfirmedByRenewal ==
    [][(Lease.MsgType = "Offer" /\ Lease'.MsgType = "Ack")
       => path = "discover"]_vars

====
